---- MODULE Spec2Model ----
(***************************************************************************)
(* raisemyhand: question numbering, vote counting and the WebSocket        *)
(* connection manager.                                                     *)
(*                                                                         *)
(* The relational store is modelled at the level the handlers use it:      *)
(* a read sees the committed rows (READ COMMITTED / SQLite WAL), and       *)
(* Session.commit() flushes the pending INSERT/UPDATE/DELETE and commits   *)
(* them in one atomic step, the unique constraints being checked against   *)
(* the committed rows.  A store that makes a conflicting INSERT wait for   *)
(* the other transaction gives the same outcomes.                          *)
(***************************************************************************)
EXTENDS Integers, Sequences, FiniteSets, TLC

\* ---------------------------------------------------------------- bounds
NumSubmitters == 4
DelSubmitters == 3
BcastSubmitters == 2
BcastVoteCalls == 2
NumVoteCalls == 3
NumConnections == 2
\* clock ticks per second, the last tick of the clock, and the number of
\* inbound messages one handler reads
TicksPerSecond == 2
MaxTime == 4
MaxMsgs == 16
\* the number of direct calls of check_connection_timeout
MaxChecks == 3
\* the number of update_config calls that broadcast to all
MaxConfigUpdates == 1
\* the number of direct calls of connect, disconnect and broadcast
MaxCalls == 2

\* ------------------------------------------------------ program constants
max_retries_two == 3 - 1
max_retries_four == 3 + 1

max_retries == 3
\* check_rate_limit(websocket, max_messages=10, window_seconds=1)
max_messages == 10
window_seconds == 1
\* check_connection_timeout(websocket, timeout_seconds=3600)
timeout_seconds == 3600

\* ------------------------------------------------------------ input sets
Submitters == 1..NumSubmitters
VoteCalls == 1..NumVoteCalls
Connections == 1..NumConnections
MeetingCodes == {"A", "B"}
\* the codes a WebSocket client may ask for: "Z" is the code of no meeting
SessionCodes == MeetingCodes \cup {"Z"}
Students == {"s1", "s2"}
SubmitTasks == {<<"q", p>> : p \in Submitters}
VoteTasks == {<<"v", c>> : c \in VoteCalls}
Tasks == SubmitTasks \cup VoteTasks

VARIABLES
    questions,          \* committed rows of table questions
    votes,              \* committed rows of table question_votes
    next_id,            \* primary-key sequence of table questions
    next_vote_id,       \* primary-key sequence of table question_votes
    qpc,                \* create_question: position of each call
    attempt,            \* create_question: loop variable of the retry loop
    next_number,        \* create_question: local next_number
    qmeeting,           \* create_question: meeting (code) of the call
    db_question,        \* create_question: id of the row the call committed
    vpc,                \* toggle_vote: position of each call
    vquestion,          \* toggle_vote: question_id of the call
    vstudent,           \* toggle_vote: student_id of the call
    vupvotes,           \* toggle_vote: question.upvotes as loaded by the session
    existing_vote,      \* toggle_vote: id of the vote row found, 0 for None
    vaction,            \* toggle_vote: local action
    active_connections, \* ConnectionManager.active_connections
    message_counts,     \* ConnectionManager.message_counts
    connection_times,   \* ConnectionManager.connection_times
    ws_state,           \* each WebSocket: new / open / dropped / closed
    ws_code,            \* websocket_endpoint: session_code of each handler
    inbox,              \* events each WebSocket has been sent
    now,                \* datetime.utcnow().timestamp()
    sweep,              \* ConnectionManager.broadcast coroutines
    committed_log,      \* history: every question row ever committed, in order
    broadcast_log,      \* history: every call of manager.broadcast, in order
    is_active,          \* class_meetings.is_active of each existing meeting
    ws_close,           \* close code the server sent on each WebSocket, or 0
    recv_log,           \* history: the inbound messages each handler has handled
    timeout_check,      \* history: the calls of check_connection_timeout, in order
    key_order,          \* the entries of the dict active_connections, in
                        \* insertion order, "" where a key was deleted
    all_sweep,          \* ConnectionManager.broadcast_to_all coroutine
    call_log            \* history: the direct calls of connect, disconnect and
                        \* broadcast, each with the registry before and after

dbVars == <<questions, votes, next_id, next_vote_id>>
subVars == <<qpc, attempt, next_number, qmeeting, db_question>>
voteVars == <<vpc, vquestion, vstudent, vupvotes, existing_vote, vaction>>
regVars == <<active_connections, message_counts, connection_times>>
wsVars == <<ws_state, ws_code, inbox, now>>
histVars == <<committed_log, broadcast_log>>
envVars == <<is_active, ws_close, recv_log, timeout_check>>
allVars == <<key_order, all_sweep, call_log>>
vars == <<dbVars, subVars, voteVars, regVars, wsVars, sweep, histVars, envVars,
          allVars>>

\* ------------------------------------------------------------- helpers
Max(S) == CHOOSE x \in S : \A y \in S : y <= x

Range(s) == {s[i] : i \in 1..Len(s)}

Restrict(f, S) == [x \in S |-> f[x]]

\* a remove that drops the last element when x is not in the list
RECURSIVE ListRemove_DropLast(_, _)
ListRemove_DropLast(lst, x) ==
    IF lst = <<>> THEN <<>>
    ELSE IF Head(lst) = x \/ Len(lst) = 1 THEN Tail(lst)
    ELSE <<Head(lst)>> \o ListRemove_DropLast(Tail(lst), x)

\* list.remove(x): drops the first occurrence of x
RECURSIVE ListRemove(_, _)
ListRemove(lst, x) ==
    IF lst = <<>> THEN <<>>
    ELSE IF Head(lst) = x THEN Tail(lst)
    ELSE <<Head(lst)>> \o ListRemove(Tail(lst), x)

\* number of occurrences of e in the sequence s
RECURSIVE CountIn(_, _)
CountIn(s, e) ==
    IF s = <<>> THEN 0
    ELSE (IF Head(s) = e THEN 1 ELSE 0) + CountIn(Tail(s), e)

\* ------------------------------------------------------------ the store
MaxNumber_NoFilter(m) ==
    LET nums == {q.question_number : q \in questions}
    IN IF nums = {} THEN 0 ELSE Max(nums)

\* db.query(func.max(Question.question_number)).filter(meeting_id == m).scalar()
MaxNumber(m) ==
    LET nums == {q.question_number : q \in {r \in questions : r.meeting_id = m}}
    IN IF nums = {} THEN 0 ELSE Max(nums)

QuestionNumberTaken_NoConstraint(m, n) == FALSE

\* UniqueConstraint('meeting_id', 'question_number')
QuestionNumberTaken(m, n) ==
    \E q \in questions : q.meeting_id = m /\ q.question_number = n

VoteKeyTaken_NoConstraint(vs, qid, s) == FALSE

\* UniqueConstraint('question_id', 'student_id')
VoteKeyTaken(vs, qid, s) ==
    \E v \in vs : v.question_id = qid /\ v.student_id = s

\* db.query(Question).filter(Question.id == question_id).first().upvotes
LoadedUpvotes(qs, qid) == (CHOOSE q \in qs : q.id = qid).upvotes

\* db.query(QuestionVote).filter(question_id, student_id).first(): the id of
\* the row, 0 for None
FindVote(vs, qid, s) ==
    LET found == {v \in vs : v.question_id = qid /\ v.student_id = s}
    IN IF found = {} THEN 0 ELSE (CHOOSE v \in found : TRUE).id

\* the value toggle_vote assigns to question.upvotes
NewUpvotes(loaded, existing) ==
    IF existing # 0
    THEN (IF loaded - 1 > 0 THEN loaded - 1 ELSE 0)
    ELSE loaded + 1

\* the flush of toggle_vote's commit on a store value [qs, vs, vid]: DELETE or
\* INSERT of the vote row, and UPDATE of questions.upvotes when the session
\* holds a value that differs from the one it loaded.  ok is FALSE when the
\* INSERT violates the unique constraint (nothing is written then).
FlushVote(db, qid, s, loaded, existing) ==
    LET new == NewUpvotes(loaded, existing)
        qs1 == IF new = loaded THEN db.qs
               ELSE {IF q.id = qid THEN [q EXCEPT !.upvotes = new] ELSE q :
                        q \in db.qs}
    IN IF existing # 0
       THEN [ok |-> TRUE, qs |-> qs1,
             vs |-> {v \in db.vs : v.id # existing}, vid |-> db.vid]
       ELSE IF VoteKeyTaken(db.vs, qid, s)
            THEN [ok |-> FALSE, qs |-> db.qs, vs |-> db.vs, vid |-> db.vid]
            ELSE [ok |-> TRUE, qs |-> qs1,
                  vs |-> db.vs \cup {[id |-> db.vid, question_id |-> qid,
                                      student_id |-> s]},
                  vid |-> db.vid + 1]

\* one toggle_vote call run from its first query to its commit with no other
\* transaction in between
ToggleAlone(db, qid, s) ==
    FlushVote(db, qid, s, LoadedUpvotes(db.qs, qid), FindVote(db.vs, qid, s))

Store == [ok |-> TRUE, qs |-> questions, vs |-> votes, vid |-> next_vote_id]

\* a failed commit after which the UPDATE of questions.upvotes stays written
AfterFailedCommit_Partial(db, pending) == [db EXCEPT !.qs = pending.qs]

\* db.rollback() after a failed commit: the store as it was, whatever the
\* session had pending
AfterFailedCommit(db, pending) == db

MeetingOfQuestion(qid) == (CHOOSE q \in questions : q.id = qid).meeting_id

\* ------------------------------------------------- the connection manager
EmptyMap == [x \in {} |-> 0]

NoMsg == [type |-> "none", question_id |-> 0, value |-> 0]

\* a broadcast coroutine that has not been called
NoSweep == [state |-> "none", code |-> "A", msg |-> NoMsg, idx |-> 0, cur |-> 0,
            disconnected |-> <<>>, detached |-> FALSE, targets |-> {}]

Registry == [ac |-> active_connections, mc |-> message_counts,
             ct |-> connection_times]

\* disconnect that makes an empty list for a code it does not find
DisconnectReg_CreatesKey(reg, w, code) ==
    [ac |-> IF code \in DOMAIN reg.ac
            THEN LET lst == ListRemove(reg.ac[code], w)
                 IN IF lst = <<>>
                    THEN Restrict(reg.ac, DOMAIN reg.ac \ {code})
                    ELSE [reg.ac EXCEPT ![code] = lst]
            ELSE [c \in DOMAIN reg.ac \cup {code} |->
                     IF c = code THEN <<>> ELSE reg.ac[c]],
     mc |-> Restrict(reg.mc, DOMAIN reg.mc \ {w}),
     ct |-> Restrict(reg.ct, DOMAIN reg.ct \ {w})]

\* disconnect that keeps the key of a list it has emptied
DisconnectReg_KeepKey(reg, w, code) ==
    [ac |-> IF code \in DOMAIN reg.ac
            THEN [reg.ac EXCEPT ![code] = ListRemove(@, w)]
            ELSE reg.ac,
     mc |-> Restrict(reg.mc, DOMAIN reg.mc \ {w}),
     ct |-> Restrict(reg.ct, DOMAIN reg.ct \ {w})]

\* ConnectionManager.disconnect(websocket, session_code) on a registry value
DisconnectReg(reg, w, code) ==
    LET ac1 ==
            IF code \in DOMAIN reg.ac
            THEN LET lst == ListRemove(reg.ac[code], w)
                 IN IF lst = <<>>
                    THEN Restrict(reg.ac, DOMAIN reg.ac \ {code})
                    ELSE [reg.ac EXCEPT ![code] = lst]
            ELSE reg.ac
    IN [ac |-> ac1,
        mc |-> Restrict(reg.mc, DOMAIN reg.mc \ {w}),
        ct |-> Restrict(reg.ct, DOMAIN reg.ct \ {w})]

\* "for conn in disconnected: self.disconnect(conn, session_code)"
RECURSIVE DisconnectAll(_, _, _)
DisconnectAll(reg, conns, code) ==
    IF conns = <<>> THEN reg
    ELSE DisconnectAll(DisconnectReg(reg, Head(conns), code), Tail(conns), code)

\* ConnectionManager.connect(websocket, session_code) on a registry value
ConnectReg(reg, w, code) ==
    LET lst == IF code \in DOMAIN reg.ac THEN reg.ac[code] ELSE <<>>
    IN [ac |-> [c \in DOMAIN reg.ac \cup {code} |->
                    IF c = code THEN Append(lst, w) ELSE reg.ac[c]],
        mc |-> [x \in DOMAIN reg.mc \cup {w} |->
                    IF x = w THEN <<>> ELSE reg.mc[x]],
        ct |-> [x \in DOMAIN reg.ct \cup {w} |->
                    IF x = w THEN now ELSE reg.ct[x]]]

\* (a sweep that walks the connections of every session code)
RECURSIVE AllLists(_, _)
AllLists(ac, codes) ==
    IF codes = {} THEN <<>>
    ELSE LET c == CHOOSE x \in codes : TRUE
         IN ac[c] \o AllLists(ac, codes \ {c})

SweepList_AllCodes(s, ac) == AllLists(ac, DOMAIN ac)

\* The list object a running broadcast iterates.  The loop holds the list it
\* found under session_code when it started; once disconnect() has emptied
\* that list and deleted the key, the loop is left with the empty list, and a
\* later connect() puts a new list under the key.
SweepList(s, ac) ==
    IF s.detached \/ s.code \notin DOMAIN ac THEN <<>> ELSE ac[s.code]

\* effect of a registry change on the running broadcasts: a deleted key
\* detaches them from the registry; targets keeps the connections that have
\* been registered and open since the broadcast started
AfterRegChange(sw, acOld, acNew) ==
    [t \in Tasks |->
        IF sw[t].state = "running"
        THEN [sw[t] EXCEPT
                !.detached = @ \/ (sw[t].code \in DOMAIN acOld
                                   /\ sw[t].code \notin DOMAIN acNew),
                !.targets = IF sw[t].code \in DOMAIN acNew
                            THEN @ \cap Range(acNew[sw[t].code])
                            ELSE {}]
        ELSE sw[t]]

\* ConnectionManager.broadcast up to its first send
StartSweep(msg, code) ==
    IF code \in DOMAIN active_connections /\ active_connections[code] # <<>>
    THEN [state |-> "running", code |-> code, msg |-> msg, idx |-> 1,
          cur |-> active_connections[code][1], disconnected |-> <<>>,
          detached |-> FALSE,
          targets |-> {w \in Range(active_connections[code]) :
                          ws_state[w] = "open"}]
    ELSE [NoSweep EXCEPT !.state = "done", !.code = code, !.msg = msg]

\* ------------------------------------------------------ broadcast_to_all
Min(S) == CHOOSE x \in S : \A y \in S : x <= y

\* the event update_config broadcasts to every connection
MaintenanceMsg == [type |-> "maintenance_mode_changed", question_id |-> 0,
                   value |-> 1]

\* broadcast_to_all has not been called.  used and len are the dict
\* iterator's size at creation and count of items still expected, pos the
\* entry it has reached, code and idx/cur the inner loop's list and position
NoAllSweep == [state |-> "none", calls |-> 0, msg |-> NoMsg, used |-> 0,
               len |-> 0, pos |-> 0, code |-> "", idx |-> 0, cur |-> 0,
               detached |-> FALSE, disconnected |-> <<>>, targets |-> {}]

\* all connections in the lists of the registry
Registered(ac) == UNION {Range(ac[c]) : c \in DOMAIN ac}

\* the dict's entries after a registry change: a deleted key leaves a hole,
\* a new key is appended (connect adds at most one key; the few keys of a
\* run never make the dict resize)
KeysAfter(order, acOld, acNew) ==
    LET kept == [i \in DOMAIN order |->
                    IF order[i] \in DOMAIN acNew /\ order[i] \in DOMAIN acOld
                    THEN order[i] ELSE ""]
        new == DOMAIN acNew \ DOMAIN acOld
    IN IF new = {} THEN kept ELSE Append(kept, CHOOSE c \in new : TRUE)

\* effect of a registry change on a running broadcast_to_all: the list it
\* walks is detached when its key is deleted
AfterRegChangeAll(s, acOld, acNew) ==
    IF s.state = "running"
    THEN [s EXCEPT !.detached = @ \/ (s.code \in DOMAIN acOld
                                      /\ s.code \notin DOMAIN acNew),
                   !.targets = @ \cap Registered(acNew)]
    ELSE s

\* the dict iterator's first test: RuntimeError "dictionary changed size
\* during iteration"
SizeChanged(s, ac) == Cardinality(DOMAIN ac) # s.used

\* "for session_code, connections in self.active_connections.items()" moves
\* on, up to the next send_json: the iterator raises when the dict's size
\* changed, and, in an interpreter that is strict about it, when it finds an
\* entry after the last one it expected
RECURSIVE AllAdvance(_, _, _, _)
AllAdvance(s, order, ac, strict) ==
    IF SizeChanged(s, ac)
    THEN [s EXCEPT !.state = "raised", !.cur = 0]
    ELSE LET rest == {i \in (s.pos + 1)..Len(order) : order[i] # ""}
         IN IF rest = {}
            THEN [s EXCEPT !.state = "cleanup", !.cur = 0]
            ELSE IF s.len = 0 /\ strict
            THEN [s EXCEPT !.state = "raised", !.cur = 0]
            ELSE LET i == Min(rest)
                     s1 == [s EXCEPT !.pos = i, !.code = order[i], !.idx = 1,
                                     !.len = IF @ > 0 THEN @ - 1 ELSE 0,
                                     !.detached = FALSE]
                 IN IF ac[order[i]] = <<>>
                    THEN AllAdvance(s1, order, ac, strict)
                    ELSE [s1 EXCEPT !.cur = ac[order[i]][1]]

\* "for conn, session_code in disconnected: self.disconnect(...)"
RECURSIVE DisconnectPairs(_, _)
DisconnectPairs(reg, pairs) ==
    IF pairs = <<>> THEN reg
    ELSE DisconnectPairs(DisconnectReg(reg, Head(pairs)[1], Head(pairs)[2]),
                         Tail(pairs))

\* the end of broadcast_to_all once its loops are over: the cleanup
AllFinish(s, reg) ==
    IF s.state = "cleanup"
    THEN [s |-> [s EXCEPT !.state = "done"],
          reg |-> DisconnectPairs(reg, s.disconnected)]
    ELSE [s |-> s, reg |-> reg]

\* the error event the handler sends before it closes a refused connection
ErrorMsg == [type |-> "error", question_id |-> 0, value |-> 0]

\* session validation of websocket_endpoint without the is_active test
ValidateSession_NoActiveCheck(act, code) ==
    IF code \notin DOMAIN act THEN 4004 ELSE 0

\* session validation of websocket_endpoint: the close code of the refusal,
\* or 0 when the session exists and is active
ValidateSession(act, code) ==
    IF code \notin DOMAIN act THEN 4004
    ELSE IF ~act[code] THEN 4003
    ELSE 0

\* the replies of the receive loop
RateLimitMsg == [type |-> "error", question_id |-> 0, value |-> max_messages]
PongMsg == [type |-> "pong", question_id |-> 0, value |-> 0]

\* the arguments of the receive loop's calls, in clock ticks
RateWindow == window_seconds * TicksPerSecond
IdleTimeout == timeout_seconds * TicksPerSecond

\* check_rate_limit that compares the count with > instead of >=
CheckRateLimit_Gt(mc, w, t, maxm, window) ==
    IF w \in DOMAIN mc
    THEN LET InWindow(ts) == t - ts < window
             kept == SelectSeq(mc[w], InWindow)
         IN IF Len(kept) > maxm
            THEN [ok |-> FALSE, mc |-> [mc EXCEPT ![w] = kept]]
            ELSE [ok |-> TRUE, mc |-> [mc EXCEPT ![w] = Append(kept, t)]]
    ELSE [ok |-> TRUE, mc |-> mc]

\* ConnectionManager.check_rate_limit at time t: the result and the new
\* message_counts
CheckRateLimit(mc, w, t, maxm, window) ==
    IF w \in DOMAIN mc
    THEN LET InWindow(ts) == t - ts < window
             kept == SelectSeq(mc[w], InWindow)
         IN IF Len(kept) >= maxm
            THEN [ok |-> FALSE, mc |-> [mc EXCEPT ![w] = kept]]
            ELSE [ok |-> TRUE, mc |-> [mc EXCEPT ![w] = Append(kept, t)]]
    ELSE [ok |-> TRUE, mc |-> mc]

\* check_connection_timeout that compares with >= instead of >
CheckConnectionTimeout_Ge(ct, w, t, timeout) ==
    IF w \in DOMAIN ct THEN t - ct[w] >= timeout ELSE FALSE

\* ConnectionManager.check_connection_timeout at time t
CheckConnectionTimeout(ct, w, t, timeout) ==
    IF w \in DOMAIN ct THEN t - ct[w] > timeout ELSE FALSE

\* ConnectionManager.update_activity at time t
UpdateActivity(ct, w, t) ==
    [x \in DOMAIN ct \cup {w} |-> IF x = w THEN t ELSE ct[x]]

\* ------------------------------------------------------------------ Init
Init ==
    /\ questions = {}
    /\ votes = {}
    /\ next_id = 1
    /\ next_vote_id = 1
    /\ qpc = [p \in Submitters |-> "idle"]
    /\ attempt = [p \in Submitters |-> 0]
    /\ next_number = [p \in Submitters |-> 0]
    /\ qmeeting = [p \in Submitters |-> "A"]
    /\ db_question = [p \in Submitters |-> 0]
    /\ vpc = [c \in VoteCalls |-> "idle"]
    /\ vquestion = [c \in VoteCalls |-> 0]
    /\ vstudent = [c \in VoteCalls |-> "s1"]
    /\ vupvotes = [c \in VoteCalls |-> 0]
    /\ existing_vote = [c \in VoteCalls |-> 0]
    /\ vaction = [c \in VoteCalls |-> "none"]
    /\ active_connections = EmptyMap
    /\ message_counts = EmptyMap
    /\ connection_times = EmptyMap
    /\ ws_state = [w \in Connections |-> "new"]
    /\ ws_code = [w \in Connections |-> "A"]
    /\ inbox = [w \in Connections |-> <<>>]
    /\ now = 0
    /\ sweep = [t \in Tasks |-> NoSweep]
    /\ committed_log = <<>>
    /\ broadcast_log = <<>>
    /\ is_active = [m \in MeetingCodes |-> TRUE]
    /\ ws_close = [w \in Connections |-> 0]
    /\ recv_log = [w \in Connections |-> <<>>]
    /\ timeout_check = <<>>
    /\ key_order = <<>>
    /\ all_sweep = NoAllSweep
    /\ call_log = <<>>

\* ------------------------------------------------------ create_question
NewQuestionMsg(qid, n) ==
    [type |-> "new_question", question_id |-> qid, value |-> n]

\* first pass of the retry loop: meeting lookup, read of the maximum, db.add
\* (the calls are interchangeable: they enter in the order of their index)
CreateQuestion(p, m) ==
    /\ qpc[p] = "idle"
    /\ \A r \in 1..(p - 1) : qpc[r] # "idle"
    /\ m \in DOMAIN is_active /\ is_active[m]
    /\ qpc' = [qpc EXCEPT ![p] = "commit"]
    /\ qmeeting' = [qmeeting EXCEPT ![p] = m]
    /\ attempt' = [attempt EXCEPT ![p] = 0]
    /\ next_number' = [next_number EXCEPT ![p] = MaxNumber(m) + 1]
    /\ UNCHANGED <<allVars, envVars, db_question, dbVars, voteVars, regVars, wsVars, sweep, histVars>>

\* a later pass of the retry loop, after "continue"
RetryRead(p) ==
    /\ qpc[p] = "retry"
    /\ qpc' = [qpc EXCEPT ![p] = "commit"]
    /\ next_number' = [next_number EXCEPT ![p] = MaxNumber(qmeeting[p]) + 1]
    /\ UNCHANGED <<allVars, envVars, attempt, qmeeting, db_question, dbVars, voteVars, regVars,
                   wsVars, sweep, histVars>>

\* db.commit() succeeds; the new_question broadcast starts
CommitQuestion(p) ==
    /\ qpc[p] = "commit"
    /\ ~QuestionNumberTaken(qmeeting[p], next_number[p])
    /\ LET row == [id |-> next_id, meeting_id |-> qmeeting[p],
                   question_number |-> next_number[p], upvotes |-> 0]
           msg == NewQuestionMsg(next_id, next_number[p])
           sw == StartSweep(msg, qmeeting[p])
       IN /\ questions' = questions \cup {row}
          /\ next_id' = next_id + 1
          /\ db_question' = [db_question EXCEPT ![p] = next_id]
          /\ committed_log' = Append(committed_log, row)
          /\ broadcast_log' = Append(broadcast_log,
                                     [msg |-> msg, code |-> qmeeting[p]])
          /\ sweep' = [sweep EXCEPT ![<<"q", p>>] = sw]
          /\ qpc' = [qpc EXCEPT ![p] =
                        IF sw.state = "done" THEN "done" ELSE "bcast"]
    /\ UNCHANGED <<allVars, envVars, attempt, next_number, qmeeting, votes, next_vote_id, voteVars,
                   regVars, wsVars>>

\* db.commit() raises the unique-constraint error: rollback, then continue
\* or give up
CommitConflict(p) ==
    /\ qpc[p] = "commit"
    /\ QuestionNumberTaken(qmeeting[p], next_number[p])
    /\ IF attempt[p] < max_retries - 1
       THEN /\ attempt' = [attempt EXCEPT ![p] = @ + 1]
            /\ qpc' = [qpc EXCEPT ![p] = "retry"]
       ELSE /\ qpc' = [qpc EXCEPT ![p] = "failed"]
            /\ UNCHANGED attempt
    /\ UNCHANGED <<allVars, envVars, next_number, qmeeting, db_question, dbVars, voteVars, regVars,
                   wsVars, sweep, histVars>>

\* db.commit() raises an error that is no unique-constraint error: rollback
\* and HTTP 500 without another pass of the loop
CommitError(p) ==
    /\ qpc[p] = "commit"
    /\ qpc' = [qpc EXCEPT ![p] = "error"]
    /\ UNCHANGED <<allVars, envVars, attempt, next_number, qmeeting, db_question, dbVars,
                   voteVars, regVars, wsVars, sweep, histVars>>

\* delete_question: the row and, by cascade, its votes
DeleteQuestion(qid) ==
    /\ \E q \in questions : q.id = qid
    /\ questions' = {q \in questions : q.id # qid}
    /\ votes' = {v \in votes : v.question_id # qid}
    /\ UNCHANGED <<allVars, envVars, next_id, next_vote_id, subVars, voteVars, regVars, wsVars,
                   sweep, histVars>>

\* ---------------------------------------------------------- toggle_vote
UpvoteMsg(qid, n) == [type |-> "upvote", question_id |-> qid, value |-> n]

\* the call enters and loads the question (404 when there is none)
ToggleVote(c, qid, s) ==
    /\ vpc[c] = "idle"
    /\ \A r \in 1..(c - 1) : vpc[r] # "idle"
    /\ \E q \in questions : q.id = qid
    /\ vpc' = [vpc EXCEPT ![c] = "lookup"]
    /\ vquestion' = [vquestion EXCEPT ![c] = qid]
    /\ vstudent' = [vstudent EXCEPT ![c] = s]
    /\ vupvotes' = [vupvotes EXCEPT ![c] = LoadedUpvotes(questions, qid)]
    /\ UNCHANGED <<allVars, envVars, existing_vote, vaction, dbVars, subVars, regVars, wsVars,
                   sweep, histVars>>

\* "Check if vote already exists"
LookupVote(c) ==
    /\ vpc[c] = "lookup"
    /\ vpc' = [vpc EXCEPT ![c] = "commit"]
    /\ existing_vote' = [existing_vote EXCEPT ![c] =
                            FindVote(votes, vquestion[c], vstudent[c])]
    /\ UNCHANGED <<allVars, envVars, vquestion, vstudent, vupvotes, vaction, dbVars, subVars,
                   regVars, wsVars, sweep, histVars>>

\* db.commit() succeeds; db.refresh(question); the upvote broadcast is handed
\* to asyncio.create_task, which raises RuntimeError when the calling thread
\* runs no event loop
CommitVote(c, loop_running) ==
    /\ vpc[c] = "commit"
    /\ LET res == FlushVote(Store, vquestion[c], vstudent[c], vupvotes[c],
                            existing_vote[c])
           msg == UpvoteMsg(vquestion[c], LoadedUpvotes(res.qs, vquestion[c]))
           code == MeetingOfQuestion(vquestion[c])
       IN /\ res.ok
          /\ questions' = res.qs
          /\ votes' = res.vs
          /\ next_vote_id' = res.vid
          /\ vupvotes' = [vupvotes EXCEPT ![c] =
                             LoadedUpvotes(res.qs, vquestion[c])]
          /\ IF loop_running
             THEN /\ sweep' = [sweep EXCEPT ![<<"v", c>>] =
                                [NoSweep EXCEPT !.state = "scheduled",
                                                !.code = code, !.msg = msg]]
                  /\ broadcast_log' = Append(broadcast_log,
                                             [msg |-> msg, code |-> code])
             ELSE UNCHANGED <<sweep, broadcast_log>>
    /\ vaction' = [vaction EXCEPT ![c] =
                      IF existing_vote[c] # 0 THEN "removed" ELSE "added"]
    /\ vpc' = [vpc EXCEPT ![c] = "done"]
    /\ UNCHANGED <<allVars, envVars, vquestion, vstudent, existing_vote, next_id, subVars, regVars,
                   wsVars, committed_log>>

\* db.commit() raises the unique-constraint error: rollback, HTTP 500
CommitVoteRejected(c) ==
    /\ vpc[c] = "commit"
    /\ ~FlushVote(Store, vquestion[c], vstudent[c], vupvotes[c],
                  existing_vote[c]).ok
    /\ vpc' = [vpc EXCEPT ![c] = "error"]
    /\ UNCHANGED <<allVars, envVars, vquestion, vstudent, vupvotes, existing_vote, vaction, dbVars,
                   subVars, regVars, wsVars, sweep, histVars>>

\* db.commit() raises another error (the database is locked or gone):
\* rollback, HTTP 500
CommitVoteError(c) ==
    /\ vpc[c] = "commit"
    /\ LET pending == FlushVote(Store, vquestion[c], vstudent[c], vupvotes[c],
                                existing_vote[c])
           st == AfterFailedCommit(Store, pending)
       IN /\ questions' = st.qs
          /\ votes' = st.vs
          /\ next_vote_id' = st.vid
    /\ vpc' = [vpc EXCEPT ![c] = "failed"]
    /\ UNCHANGED <<allVars, envVars, vquestion, vstudent, vupvotes, existing_vote, vaction,
                   next_id, subVars, regVars, wsVars, sweep, histVars>>

\* the call finds no question with the id: HTTP 404
ToggleVoteNotFound(c, qid, s) ==
    /\ vpc[c] = "idle"
    /\ \A r \in 1..(c - 1) : vpc[r] # "idle"
    /\ ~\E q \in questions : q.id = qid
    /\ vpc' = [vpc EXCEPT ![c] = "notfound"]
    /\ vquestion' = [vquestion EXCEPT ![c] = qid]
    /\ vstudent' = [vstudent EXCEPT ![c] = s]
    /\ UNCHANGED <<allVars, envVars, vupvotes, existing_vote, vaction, dbVars, subVars,
                   regVars, wsVars, sweep, histVars>>

\* the event loop runs a task made by asyncio.create_task
TaskStart(t) ==
    /\ sweep[t].state = "scheduled"
    /\ sweep' = [sweep EXCEPT ![t] = StartSweep(sweep[t].msg, sweep[t].code)]
    /\ UNCHANGED <<allVars, envVars, dbVars, subVars, voteVars, regVars, wsVars, histVars>>

\* ------------------------------------------------------------- broadcast
\* one resumption of ConnectionManager.broadcast: the pending send_json
\* returns or raises, then the loop runs to its next send or to the end
SweepStep(t) ==
    /\ sweep[t].state = "running"
    /\ LET s == sweep[t]
           w == s.cur
           ok == ws_state[w] = "open"
           disc == IF ok THEN s.disconnected ELSE Append(s.disconnected, w)
           lst == SweepList(s, active_connections)
       IN /\ inbox' = [inbox EXCEPT ![w] = IF ok THEN Append(@, s.msg) ELSE @]
          /\ IF s.idx < Len(lst)
             THEN /\ sweep' = [sweep EXCEPT ![t] =
                                [s EXCEPT !.idx = s.idx + 1,
                                          !.cur = lst[s.idx + 1],
                                          !.disconnected = disc]]
                  /\ UNCHANGED <<regVars, qpc>>
             ELSE LET reg == DisconnectAll(Registry, disc, s.code)
                      done == [sweep EXCEPT ![t] =
                                 [s EXCEPT !.state = "done", !.cur = 0,
                                           !.disconnected = disc]]
                  IN /\ active_connections' = reg.ac
                     /\ message_counts' = reg.mc
                     /\ connection_times' = reg.ct
                     /\ sweep' = AfterRegChange(done, active_connections, reg.ac)
                     /\ qpc' = IF t \in SubmitTasks
                               THEN [qpc EXCEPT ![t[2]] = "done"]
                               ELSE qpc
    /\ key_order' = KeysAfter(key_order, active_connections, active_connections')
    /\ all_sweep' = AfterRegChangeAll(all_sweep, active_connections,
                                      active_connections')
    /\ UNCHANGED <<call_log, envVars, attempt, next_number, qmeeting, db_question, dbVars, voteVars,
                   ws_state, ws_code, now, histVars>>

\* ------------------------------------------------------ broadcast_to_all
\* update_config changes system_maintenance_mode and calls broadcast_to_all,
\* which runs up to its first send
UpdateConfig ==
    /\ all_sweep.state \in {"none", "done", "raised"}
    /\ all_sweep.calls < MaxConfigUpdates
    /\ LET s0 == [NoAllSweep EXCEPT
                     !.state = "running", !.calls = all_sweep.calls + 1,
                     !.msg = MaintenanceMsg,
                     !.used = Cardinality(DOMAIN active_connections),
                     !.len = Cardinality(DOMAIN active_connections),
                     !.targets = {w \in Registered(active_connections) :
                                     ws_state[w] = "open"}]
           fin == AllFinish(AllAdvance(s0, key_order, active_connections,
                                       TRUE), Registry)
       IN all_sweep' = fin.s
    /\ UNCHANGED <<call_log, key_order, envVars, dbVars, subVars, voteVars, regVars,
                   wsVars, sweep, histVars>>

\* one resumption of broadcast_to_all: the pending send_json returns or
\* raises, then the loops run to the next send, to the cleanup, or to the
\* RuntimeError of the dict iterator, which the coroutine does not catch
AllSweepStep(strict) ==
    /\ all_sweep.state = "running"
    /\ LET s == all_sweep
           w == s.cur
           ok == ws_state[w] = "open"
           s1 == [s EXCEPT !.disconnected =
                              IF ok THEN @ ELSE Append(@, <<w, s.code>>)]
           lst == IF s.detached \/ s.code \notin DOMAIN active_connections
                  THEN <<>> ELSE active_connections[s.code]
           s2 == IF s.idx < Len(lst)
                 THEN [s1 EXCEPT !.idx = s.idx + 1, !.cur = lst[s.idx + 1]]
                 ELSE AllAdvance(s1, key_order, active_connections, strict)
           fin == AllFinish(s2, Registry)
       IN /\ inbox' = [inbox EXCEPT ![w] = IF ok THEN Append(@, s.msg) ELSE @]
          /\ active_connections' = fin.reg.ac
          /\ message_counts' = fin.reg.mc
          /\ connection_times' = fin.reg.ct
          /\ all_sweep' = fin.s
          /\ sweep' = AfterRegChange(sweep, active_connections, fin.reg.ac)
          /\ key_order' = KeysAfter(key_order, active_connections, fin.reg.ac)
    /\ UNCHANGED <<call_log, envVars, dbVars, subVars, voteVars, ws_state, ws_code, now,
                   histVars>>

\* ------------------------------------------- direct calls of the manager
\* manager.connect(w, code) for a connection that is registered under code.
\* websocket.accept() comes first: on a socket that is accepted already it
\* raises for some transports (nothing is changed then) and returns for
\* others
ConnectCall(w, code, accept_ok) ==
    /\ Len(call_log) < MaxCalls
    /\ ws_state[w] = "open" /\ ws_code[w] = code
    /\ LET reg == IF accept_ok THEN ConnectReg(Registry, w, code) ELSE Registry
       IN /\ active_connections' = reg.ac
          /\ message_counts' = reg.mc
          /\ connection_times' = reg.ct
          /\ call_log' = Append(call_log,
                                [op |-> "connect", w |-> w, code |-> code,
                                 at |-> now, raised |-> ~accept_ok,
                                 before |-> Registry, after |-> reg])
    /\ key_order' = KeysAfter(key_order, active_connections, active_connections')
    /\ all_sweep' = AfterRegChangeAll(all_sweep, active_connections,
                                      active_connections')
    /\ sweep' = AfterRegChange(sweep, active_connections, active_connections')
    /\ UNCHANGED <<envVars, dbVars, subVars, voteVars, wsVars, histVars>>

\* manager.disconnect(w, code) for any connection and any code
DisconnectCall(w, code) ==
    /\ Len(call_log) < MaxCalls
    /\ LET reg == DisconnectReg(Registry, w, code)
       IN /\ active_connections' = reg.ac
          /\ message_counts' = reg.mc
          /\ connection_times' = reg.ct
          /\ call_log' = Append(call_log,
                                [op |-> "disconnect", w |-> w, code |-> code,
                                 at |-> now, raised |-> FALSE,
                                 before |-> Registry, after |-> reg])
    /\ key_order' = KeysAfter(key_order, active_connections, active_connections')
    /\ all_sweep' = AfterRegChangeAll(all_sweep, active_connections,
                                      active_connections')
    /\ sweep' = AfterRegChange(sweep, active_connections, active_connections')
    /\ UNCHANGED <<envVars, dbVars, subVars, voteVars, wsVars, histVars>>

\* manager.broadcast(message, code) for a code that is no key of
\* active_connections: the "if" finds nothing and the coroutine ends
BroadcastCall(code) ==
    /\ Len(call_log) < MaxCalls
    /\ code \notin DOMAIN active_connections
    /\ LET sw == StartSweep(MaintenanceMsg, code)
       IN call_log' = Append(call_log,
                             [op |-> "broadcast", w |-> 0, code |-> code,
                              at |-> now, raised |-> sw.state # "done",
                              before |-> Registry, after |-> Registry])
    /\ UNCHANGED <<key_order, all_sweep, envVars, dbVars, subVars, voteVars,
                   regVars, wsVars, sweep, histVars>>

\* ------------------------------------------------------ websocket_endpoint
\* the handler validates the meeting, accepts and registers the connection
WsConnect(w, code) ==
    /\ ws_state[w] = "new"
    /\ ValidateSession(is_active, code) = 0
    /\ LET reg == ConnectReg(Registry, w, code)
       IN /\ active_connections' = reg.ac
          /\ message_counts' = reg.mc
          /\ connection_times' = reg.ct
    /\ ws_state' = [ws_state EXCEPT ![w] = "open"]
    /\ ws_code' = [ws_code EXCEPT ![w] = code]
    /\ key_order' = KeysAfter(key_order, active_connections, active_connections')
    /\ all_sweep' = AfterRegChangeAll(all_sweep, active_connections,
                                      active_connections')
    /\ UNCHANGED <<call_log, envVars, inbox, now, dbVars, subVars, voteVars, sweep, histVars>>

\* the handler refuses the session code: accept, one error event, close
WsReject(w, code) ==
    /\ ws_state[w] = "new"
    /\ ValidateSession(is_active, code) # 0
    /\ ws_state' = [ws_state EXCEPT ![w] = "rejected"]
    /\ ws_code' = [ws_code EXCEPT ![w] = code]
    /\ inbox' = [inbox EXCEPT ![w] = Append(@, ErrorMsg)]
    /\ ws_close' = [ws_close EXCEPT ![w] = ValidateSession(is_active, code)]
    /\ UNCHANGED <<allVars, is_active, recv_log, timeout_check, now, dbVars, subVars,
                   voteVars, regVars, sweep, histVars>>

\* end_meeting: the instructor ends the class meeting
EndMeeting(m) ==
    /\ is_active[m]
    /\ is_active' = [is_active EXCEPT ![m] = FALSE]
    /\ UNCHANGED <<allVars, ws_close, recv_log, timeout_check, dbVars, subVars, voteVars,
                   regVars, wsVars, sweep, histVars>>

\* restart_meeting: the instructor reopens an ended class meeting
RestartMeeting(m) ==
    /\ ~is_active[m]
    /\ is_active' = [is_active EXCEPT ![m] = TRUE]
    /\ UNCHANGED <<allVars, ws_close, recv_log, timeout_check, dbVars, subVars, voteVars,
                   regVars, wsVars, sweep, histVars>>

\* the reserved code "system": registered without any session lookup
WsConnectSystem(w) ==
    /\ ws_state[w] = "new"
    /\ LET reg == ConnectReg(Registry, w, "system")
       IN /\ active_connections' = reg.ac
          /\ message_counts' = reg.mc
          /\ connection_times' = reg.ct
    /\ ws_state' = [ws_state EXCEPT ![w] = "open"]
    /\ ws_code' = [ws_code EXCEPT ![w] = "system"]
    /\ key_order' = KeysAfter(key_order, active_connections, active_connections')
    /\ all_sweep' = AfterRegChangeAll(all_sweep, active_connections,
                                      active_connections')
    /\ UNCHANGED <<call_log, envVars, inbox, now, dbVars, subVars, voteVars, sweep, histVars>>

\* one turn of the receive loop of a meeting's connection: update_activity,
\* check_rate_limit, check_connection_timeout, then the pong
WsReceive(w, kind) ==
    /\ ws_state[w] = "open"
    /\ ws_code[w] # "system"
    /\ Len(recv_log[w]) < MaxMsgs
    /\ LET ct1 == UpdateActivity(connection_times, w, now)
           rl == CheckRateLimit(message_counts, w, now, max_messages, RateWindow)
           timed == CheckConnectionTimeout(ct1, w, now, IdleTimeout)
           reply == IF ~rl.ok THEN "error"
                    ELSE IF timed THEN "close"
                    ELSE IF kind = "ping" THEN "pong" ELSE "none"
       IN /\ connection_times' = ct1
          /\ message_counts' = rl.mc
          /\ inbox' = [inbox EXCEPT ![w] =
                          IF reply = "error" THEN Append(@, RateLimitMsg)
                          ELSE IF reply = "pong" THEN Append(@, PongMsg)
                          ELSE @]
          /\ ws_state' = [ws_state EXCEPT ![w] =
                             IF reply = "close" THEN "timeout" ELSE @]
          /\ ws_close' = [ws_close EXCEPT ![w] =
                             IF reply = "close" THEN 1000 ELSE @]
          /\ recv_log' = [recv_log EXCEPT ![w] =
                             Append(@, [at |-> now, kind |-> kind,
                                        idle |-> IF w \in DOMAIN connection_times
                                                 THEN now - connection_times[w]
                                                 ELSE 0,
                                        ok |-> rl.ok, reply |-> reply])]
    /\ UNCHANGED <<allVars, is_active, timeout_check, active_connections, ws_code, now,
                   dbVars, subVars, voteVars, sweep, histVars>>

\* one turn of the receive loop for a message that had arrived before the
\* peer went away: update_activity and check_rate_limit as ever; a reply
\* cannot be sent any more, send_json raises and the handler ends through
\* its finally clause; without a reply the loop goes back to receive_text
WsReceivePending(w, kind) ==
    /\ ws_state[w] = "dropped"
    /\ ws_code[w] # "system"
    /\ Len(recv_log[w]) < MaxMsgs
    /\ LET ct1 == UpdateActivity(connection_times, w, now)
           rl == CheckRateLimit(message_counts, w, now, max_messages, RateWindow)
           timed == CheckConnectionTimeout(ct1, w, now, IdleTimeout)
           reply == IF ~rl.ok THEN "error"
                    ELSE IF timed THEN "close"
                    ELSE IF kind = "ping" THEN "pong" ELSE "none"
           reg1 == [ac |-> active_connections, mc |-> rl.mc, ct |-> ct1]
           reg == IF reply = "none" THEN reg1
                  ELSE DisconnectReg(reg1, w, ws_code[w])
       IN /\ active_connections' = reg.ac
          /\ message_counts' = reg.mc
          /\ connection_times' = reg.ct
          /\ ws_state' = [ws_state EXCEPT ![w] =
                             IF reply = "none" THEN @ ELSE "closed"]
          /\ recv_log' = [recv_log EXCEPT ![w] =
                             Append(@, [at |-> now, kind |-> kind,
                                        idle |-> IF w \in DOMAIN connection_times
                                                 THEN now - connection_times[w]
                                                 ELSE 0,
                                        ok |-> rl.ok, reply |-> "none"])]
    /\ key_order' = KeysAfter(key_order, active_connections, active_connections')
    /\ all_sweep' = AfterRegChangeAll(all_sweep, active_connections,
                                      active_connections')
    /\ sweep' = AfterRegChange(sweep, active_connections, active_connections')
    /\ UNCHANGED <<call_log, is_active, ws_close, timeout_check, ws_code, inbox,
                   now, dbVars, subVars, voteVars, histVars>>

\* one turn of the receive loop of a "system" connection: only the pong
WsReceiveSystem(w, kind) ==
    /\ ws_state[w] = "open"
    /\ ws_code[w] = "system"
    /\ Len(recv_log[w]) < MaxMsgs
    /\ inbox' = [inbox EXCEPT ![w] =
                    IF kind = "ping" THEN Append(@, PongMsg) ELSE @]
    /\ recv_log' = [recv_log EXCEPT ![w] =
                       Append(@, [at |-> now, kind |-> kind,
                                  idle |-> IF w \in DOMAIN connection_times
                                           THEN now - connection_times[w]
                                           ELSE 0,
                                  ok |-> TRUE,
                                  reply |-> IF kind = "ping" THEN "pong"
                                            ELSE "none"])]
    /\ UNCHANGED <<allVars, is_active, ws_close, timeout_check, ws_state, ws_code, now,
                   dbVars, subVars, voteVars, regVars, sweep, histVars>>

\* a call of check_connection_timeout(w, timeout) on the registry as it is
CheckTimeoutCall(w, timeout) ==
    /\ Len(timeout_check) < MaxChecks
    /\ timeout_check' =
           Append(timeout_check,
                  [w |-> w, at |-> now, timeout |-> timeout,
                   known |-> w \in DOMAIN connection_times,
                   last |-> IF w \in DOMAIN connection_times
                            THEN connection_times[w] ELSE 0,
                   result |-> CheckConnectionTimeout(connection_times, w, now,
                                                     timeout)])
    /\ UNCHANGED <<allVars, is_active, ws_close, recv_log, dbVars, subVars, voteVars,
                   regVars, wsVars, sweep, histVars>>

\* datetime.utcnow() moves on by d ticks
Tick(d) ==
    /\ now < MaxTime
    /\ now' = now + d
    /\ UNCHANGED <<allVars, envVars, ws_state, ws_code, inbox, dbVars, subVars, voteVars,
                   regVars, sweep, histVars>>

\* the handler ends by an exception that is no WebSocketDisconnect (such as
\* receive_text on a binary frame): the meeting's handler logs it and runs
\* its finally clause, the "system" handler has no clause for it
WsHandlerError(w) ==
    /\ ws_state[w] = "open"
    /\ LET reg == IF ws_code[w] = "system" THEN Registry
                  ELSE DisconnectReg(Registry, w, ws_code[w])
       IN /\ active_connections' = reg.ac
          /\ message_counts' = reg.mc
          /\ connection_times' = reg.ct
    /\ ws_state' = [ws_state EXCEPT ![w] = "closed"]
    /\ key_order' = KeysAfter(key_order, active_connections, active_connections')
    /\ all_sweep' = [AfterRegChangeAll(all_sweep, active_connections,
                                       active_connections')
                       EXCEPT !.targets = @ \ {w}]
    /\ sweep' = [t \in Tasks |->
                    [AfterRegChange(sweep, active_connections,
                                    active_connections')[t]
                        EXCEPT !.targets = @ \ {w}]]
    /\ UNCHANGED <<call_log, envVars, ws_code, inbox, now, dbVars, subVars,
                   voteVars, histVars>>

\* the peer goes away; the handler has not yet been resumed
ClientDrop(w) ==
    /\ ws_state[w] = "open"
    /\ ws_state' = [ws_state EXCEPT ![w] = "dropped"]
    /\ sweep' = [t \in Tasks |->
                    [sweep[t] EXCEPT !.targets = @ \ {w}]]
    /\ all_sweep' = [all_sweep EXCEPT !.targets = @ \ {w}]
    /\ UNCHANGED key_order
    /\ UNCHANGED <<call_log, envVars, ws_code, inbox, now, dbVars, subVars, voteVars, regVars, histVars>>

\* receive_text raises WebSocketDisconnect, or the loop breaks after the
\* timeout close; finally: manager.disconnect
WsDisconnect(w) ==
    /\ ws_state[w] \in {"dropped", "timeout"}
    /\ LET reg == DisconnectReg(Registry, w, ws_code[w])
       IN /\ active_connections' = reg.ac
          /\ message_counts' = reg.mc
          /\ connection_times' = reg.ct
          /\ sweep' = AfterRegChange(sweep, active_connections, reg.ac)
    /\ ws_state' = [ws_state EXCEPT ![w] = "closed"]
    /\ key_order' = KeysAfter(key_order, active_connections, active_connections')
    /\ all_sweep' = AfterRegChangeAll(all_sweep, active_connections,
                                      active_connections')
    /\ UNCHANGED <<call_log, envVars, ws_code, inbox, now, dbVars, subVars, voteVars, histVars>>

\* ------------------------------------------------------- specifications
NextSeq ==
    \/ \E p \in Submitters, m \in MeetingCodes : CreateQuestion(p, m)
    \/ \E p \in Submitters : RetryRead(p)
    \/ \E p \in Submitters : CommitQuestion(p)
    \/ \E p \in Submitters : CommitConflict(p)

SpecSeq == Init /\ [][NextSeq]_vars

\* create_question alone, with commits that may also fail for reasons other
\* than the unique constraint
NextRetry ==
    \/ \E p \in Submitters, m \in MeetingCodes : CreateQuestion(p, m)
    \/ \E p \in Submitters : RetryRead(p)
    \/ \E p \in Submitters : CommitQuestion(p)
    \/ \E p \in Submitters : CommitConflict(p)
    \/ \E p \in Submitters : CommitError(p)

SpecRetry == Init /\ [][NextRetry]_vars

NextDel ==
    \/ \E p \in 1..DelSubmitters, m \in MeetingCodes : CreateQuestion(p, m)
    \/ \E p \in 1..DelSubmitters : RetryRead(p)
    \/ \E p \in 1..DelSubmitters : CommitQuestion(p)
    \/ \E p \in 1..DelSubmitters : CommitConflict(p)
    \/ \E qid \in 1..DelSubmitters : DeleteQuestion(qid)

SpecDel == Init /\ [][NextDel]_vars

\* two questions have been submitted, one to each meeting, and then one
\* client has connected to each meeting
InitVote ==
    /\ questions = {[id |-> 1, meeting_id |-> "A", question_number |-> 1,
                     upvotes |-> 0],
                    [id |-> 2, meeting_id |-> "B", question_number |-> 1,
                     upvotes |-> 0]}
    /\ votes = {}
    /\ next_id = 3
    /\ next_vote_id = 1
    /\ qpc = [p \in Submitters |-> IF p <= 2 THEN "done" ELSE "idle"]
    /\ attempt = [p \in Submitters |-> 0]
    /\ next_number = [p \in Submitters |-> IF p <= 2 THEN 1 ELSE 0]
    /\ qmeeting = [p \in Submitters |-> IF p = 2 THEN "B" ELSE "A"]
    /\ db_question = [p \in Submitters |-> IF p <= 2 THEN p ELSE 0]
    /\ vpc = [c \in VoteCalls |-> "idle"]
    /\ vquestion = [c \in VoteCalls |-> 0]
    /\ vstudent = [c \in VoteCalls |-> "s1"]
    /\ vupvotes = [c \in VoteCalls |-> 0]
    /\ existing_vote = [c \in VoteCalls |-> 0]
    /\ vaction = [c \in VoteCalls |-> "none"]
    /\ active_connections = [m \in MeetingCodes |->
                                IF m = "A" THEN <<1>> ELSE <<2>>]
    /\ message_counts = [w \in {1, 2} |-> <<>>]
    /\ connection_times = [w \in {1, 2} |-> 0]
    /\ ws_state = [w \in Connections |-> IF w <= 2 THEN "open" ELSE "new"]
    /\ ws_code = [w \in Connections |-> IF w = 2 THEN "B" ELSE "A"]
    /\ inbox = [w \in Connections |-> <<>>]
    /\ now = 0
    /\ sweep = [t \in Tasks |->
                   IF t \in {<<"q", 1>>, <<"q", 2>>}
                   THEN [NoSweep EXCEPT !.state = "done", !.code = qmeeting[t[2]],
                                        !.msg = NewQuestionMsg(t[2], 1)]
                   ELSE NoSweep]
    /\ committed_log = <<[id |-> 1, meeting_id |-> "A", question_number |-> 1,
                          upvotes |-> 0],
                         [id |-> 2, meeting_id |-> "B", question_number |-> 1,
                          upvotes |-> 0]>>
    /\ broadcast_log = <<[msg |-> NewQuestionMsg(1, 1), code |-> "A"],
                         [msg |-> NewQuestionMsg(2, 1), code |-> "B"]>>
    /\ is_active = [m \in MeetingCodes |-> TRUE]
    /\ ws_close = [w \in Connections |-> 0]
    /\ recv_log = [w \in Connections |-> <<>>]
    /\ timeout_check = <<>>
    /\ key_order = <<"A", "B">>
    /\ all_sweep = NoAllSweep
    /\ call_log = <<>>

NextVote ==
    \/ \E c \in VoteCalls, qid \in 1..2, s \in Students : ToggleVote(c, qid, s)
    \/ \E c \in VoteCalls : LookupVote(c)
    \/ \E c \in VoteCalls, loop_running \in BOOLEAN : CommitVote(c, loop_running)
    \/ \E c \in VoteCalls : CommitVoteRejected(c)

SpecVote == InitVote /\ [][NextVote]_vars

\* toggle_vote with its failures: ids of no question, and commits that fail
NextVoteF ==
    \/ \E c \in VoteCalls, qid \in 1..2, s \in Students : ToggleVote(c, qid, s)
    \/ \E c \in VoteCalls, qid \in 1..3, s \in Students :
            ToggleVoteNotFound(c, qid, s)
    \/ \E c \in VoteCalls : LookupVote(c)
    \/ \E c \in VoteCalls : CommitVote(c, FALSE)
    \/ \E c \in VoteCalls : CommitVoteRejected(c)
    \/ \E c \in VoteCalls : CommitVoteError(c)

SpecVoteF == InitVote /\ [][NextVoteF]_vars

\* toggle_vote together with the broadcast tasks it creates
NextVoteB ==
    \/ \E c \in 1..BcastVoteCalls, qid \in 1..2, s \in Students :
            ToggleVote(c, qid, s)
    \/ \E c \in 1..BcastVoteCalls : LookupVote(c)
    \/ \E c \in 1..BcastVoteCalls, loop_running \in BOOLEAN :
            CommitVote(c, loop_running)
    \/ \E c \in 1..BcastVoteCalls : CommitVoteRejected(c)
    \/ \E t \in VoteTasks : TaskStart(t)
    \/ \E t \in VoteTasks : SweepStep(t)

SpecVoteB == InitVote /\ [][NextVoteB]_vars

\* create_question together with its broadcast and the websocket handlers
NextNQ ==
    \/ \E p \in 1..BcastSubmitters, m \in MeetingCodes : CreateQuestion(p, m)
    \/ \E p \in 1..BcastSubmitters : RetryRead(p)
    \/ \E p \in 1..BcastSubmitters : CommitQuestion(p)
    \/ \E p \in 1..BcastSubmitters : CommitConflict(p)
    \/ \E t \in SubmitTasks : SweepStep(t)
    \/ \E w \in Connections, code \in MeetingCodes : WsConnect(w, code)
    \/ \E w \in Connections : ClientDrop(w)
    \/ \E w \in Connections : WsDisconnect(w)

SpecNQ == Init /\ [][NextNQ]_vars

\* create_question and its broadcast, with clients asking for any session
\* code while instructors end and restart the meetings
NextWS ==
    \/ \E p \in 1..BcastSubmitters, m \in MeetingCodes : CreateQuestion(p, m)
    \/ \E p \in 1..BcastSubmitters : RetryRead(p)
    \/ \E p \in 1..BcastSubmitters : CommitQuestion(p)
    \/ \E p \in 1..BcastSubmitters : CommitConflict(p)
    \/ \E p \in 1..BcastSubmitters : SweepStep(<<"q", p>>)
    \/ \E w \in Connections, code \in SessionCodes : WsConnect(w, code)
    \/ \E w \in Connections, code \in SessionCodes : WsReject(w, code)
    \/ \E m \in MeetingCodes : EndMeeting(m)
    \/ \E m \in MeetingCodes : RestartMeeting(m)

SpecWS == Init /\ [][NextWS]_vars

\* broadcast_to_all while clients connect to meetings and to the "system"
\* channel and go away
NextAll ==
    \/ \E w \in Connections, code \in MeetingCodes : WsConnect(w, code)
    \/ \E w \in Connections : WsConnectSystem(w)
    \/ \E w \in Connections : ClientDrop(w)
    \/ \E w \in Connections : WsDisconnect(w)
    \/ UpdateConfig
    \/ \E strict \in BOOLEAN : AllSweepStep(strict)

SpecAll == Init /\ [][NextAll]_vars

\* every operation on the registry: handlers that register and unregister,
\* the new_question broadcast of one create_question call, and
\* broadcast_to_all
NextReg ==
    \/ \E m \in MeetingCodes : CreateQuestion(1, m)
    \/ CommitQuestion(1)
    \/ SweepStep(<<"q", 1>>)
    \/ \E w \in Connections, code \in MeetingCodes : WsConnect(w, code)
    \/ \E w \in Connections : WsConnectSystem(w)
    \/ \E w \in Connections : ClientDrop(w)
    \/ \E w \in Connections : WsDisconnect(w)
    \/ UpdateConfig
    \/ \E strict \in BOOLEAN : AllSweepStep(strict)

SpecReg == Init /\ [][NextReg]_vars

\* clients of meeting "A" whose connections are registered once more while
\* the clock moves on, and a new_question broadcast
NextRereg ==
    \/ \E w \in Connections : WsConnect(w, "A")
    \/ \E w \in Connections, accept_ok \in BOOLEAN : ConnectCall(w, "A", accept_ok)
    \/ Tick(1)
    \/ CreateQuestion(1, "A")
    \/ CommitQuestion(1)
    \/ SweepStep(<<"q", 1>>)

SpecRereg == Init /\ [][NextRereg]_vars

\* handlers that register and unregister, and disconnect called directly
\* for any connection under any meeting code
NextUnreg ==
    \/ \E w \in Connections, code \in MeetingCodes : WsConnect(w, code)
    \/ \E w \in Connections : ClientDrop(w)
    \/ \E w \in Connections : WsDisconnect(w)
    \/ \E w \in Connections, code \in MeetingCodes : DisconnectCall(w, code)

SpecUnreg == Init /\ [][NextUnreg]_vars

\* clients of meeting "A" that go away with messages still to be handled,
\* and a new_question broadcast that finds them gone
NextClosed ==
    \/ \E w \in Connections : WsConnect(w, "A")
    \/ \E w \in Connections : ClientDrop(w)
    \/ \E w \in Connections, kind \in {"ping", "other"} : WsReceivePending(w, kind)
    \/ \E w \in Connections : WsDisconnect(w)
    \/ CreateQuestion(1, "A")
    \/ CommitQuestion(1)
    \/ SweepStep(<<"q", 1>>)

SpecClosed == Init /\ [][NextClosed]_vars

\* handlers that register and unregister, and disconnect and broadcast
\* called directly with any session code
NextMissing ==
    \/ \E w \in Connections, code \in MeetingCodes : WsConnect(w, code)
    \/ \E w \in Connections : ClientDrop(w)
    \/ \E w \in Connections : WsDisconnect(w)
    \/ \E w \in Connections, code \in SessionCodes : DisconnectCall(w, code)
    \/ \E code \in SessionCodes : BroadcastCall(code)

SpecMissing == Init /\ [][NextMissing]_vars

\* handlers of meetings and of the "system" channel ending in every way,
\* and broadcast_to_all
NextEnd ==
    \/ \E w \in Connections, code \in MeetingCodes : WsConnect(w, code)
    \/ \E w \in Connections : WsConnectSystem(w)
    \/ \E w \in Connections : ClientDrop(w)
    \/ \E w \in Connections : WsDisconnect(w)
    \/ \E w \in Connections : WsHandlerError(w)
    \/ UpdateConfig
    \/ \E strict \in BOOLEAN : AllSweepStep(strict)

SpecEnd == Init /\ [][NextEnd]_vars

\* the client whose receive loop is followed message by message
RateClient == 1

\* the receive loop of one connection of meeting "A" reading pings while
\* the clock moves on
NextRate ==
    \/ WsConnect(RateClient, "A")
    \/ WsReceive(RateClient, "ping")
    \/ Tick(1)

SpecRate == Init /\ [][NextRate]_vars

\* the same client connecting either to meeting "A" or to the reserved
\* "system" channel and sending pings
NextSys ==
    \/ WsConnect(RateClient, "A")
    \/ WsConnectSystem(RateClient)
    \/ WsReceive(RateClient, "ping")
    \/ WsReceiveSystem(RateClient, "ping")
    \/ Tick(1)

SpecSys == Init /\ [][NextSys]_vars

\* the receive loop of one connection of meeting "A" while the clock moves
\* on by a tick or by more than the idle timeout, until the peer goes away
NextIdle ==
    \/ WsConnect(RateClient, "A")
    \/ WsReceive(RateClient, "ping")
    \/ \E d \in {1, IdleTimeout + 1} : Tick(d)
    \/ ClientDrop(RateClient)
    \/ WsDisconnect(RateClient)

SpecIdle == Init /\ [][NextIdle]_vars

\* check_connection_timeout called on connections registered at different
\* times, or not registered, after the clock moved on by ticks or by the
\* idle timeout
NextTimeout ==
    \/ \E w \in Connections : WsConnect(w, "A")
    \/ \E d \in {1, IdleTimeout} : Tick(d)
    \/ \E w \in Connections : CheckTimeoutCall(w, IdleTimeout)

SpecTimeout == Init /\ [][NextTimeout]_vars

\* ------------------------------------------------------------- claims
\* C1: in every reachable state, whatever the interleaving of concurrent
\* submissions and their retries, no two committed questions of one meeting
\* have the same question_number.
C1_UniqueNumbers ==
    \A q1 \in questions, q2 \in questions :
        (q1.meeting_id = q2.meeting_id /\ q1.question_number = q2.question_number)
            => q1 = q2

\* two calls read the same maximum; one committed, the other conflicted,
\* retried and committed too
C1_Witness ==
    \E p1 \in Submitters, p2 \in Submitters :
        /\ qpc[p1] = "done" /\ attempt[p1] = 0
        /\ qpc[p2] = "done" /\ attempt[p2] > 0
        /\ qmeeting[p1] = qmeeting[p2]

\* C2 (as stated): when N calls for one meeting have run concurrently, all N
\* ended with a committed question and their numbers are N distinct values.
C2_AllCommit ==
    \A m \in MeetingCodes :
        LET calls == {p \in Submitters : qpc[p] # "idle" /\ qmeeting[p] = m}
            nums == {q.question_number : q \in {r \in questions : r.meeting_id = m}}
        IN (\A p \in calls : qpc[p] \in {"done", "failed"})
               => /\ \A p \in calls : qpc[p] = "done"
                  /\ Cardinality(nums) = Cardinality(calls)

\* C2 (amended): every call ends with a committed question or, after a
\* conflict on each of its 3 attempts, with the concurrent-submissions error;
\* the committed numbers are as many distinct values as there are calls that
\* committed; and up to 3 concurrent calls all commit.
C2_CommitOrExhausted ==
    \A m \in MeetingCodes :
        LET calls == {p \in Submitters : qpc[p] # "idle" /\ qmeeting[p] = m}
            ok == {p \in calls : qpc[p] = "done"}
            nums == {q.question_number : q \in {r \in questions : r.meeting_id = m}}
        IN /\ \A p \in calls : qpc[p] = "failed" => attempt[p] = 2
           /\ (\A p \in calls : qpc[p] \in {"done", "failed"})
                 => /\ Cardinality(nums) = Cardinality(ok)
                    /\ Cardinality(calls) <= 3 => ok = calls

\* four concurrent calls for one meeting are over: three committed, the
\* fourth conflicted three times and failed
C2_Witness ==
    \E m \in MeetingCodes :
        LET calls == {p \in Submitters : qpc[p] # "idle" /\ qmeeting[p] = m}
        IN /\ Cardinality(calls) >= 4
           /\ \A p \in calls : qpc[p] \in {"done", "failed"}
           /\ \E p \in calls : qpc[p] = "failed"
           /\ Cardinality({p \in calls : qpc[p] = "done"}) >= 3

\* C3 (as stated): once all in-flight toggles have completed, the stored
\* upvote count of every question equals the number of its vote rows.
C3_CountEqualsRows ==
    (\A c \in VoteCalls : vpc[c] \in {"idle", "done", "error"})
        => \A q \in questions :
              q.upvotes = Cardinality({v \in votes : v.question_id = q.id})

\* C4 (as stated): a number once assigned to a question of a meeting is never
\* assigned to a later question of that meeting, deletions included.
C4_NeverReused ==
    \A i \in DOMAIN committed_log, j \in DOMAIN committed_log :
        (i < j /\ committed_log[i].meeting_id = committed_log[j].meeting_id)
            => committed_log[i].question_number # committed_log[j].question_number

\* C5: when the N submissions to a meeting that started empty have all
\* succeeded (no deletion), the assigned numbers are exactly 1..N.
C5_NoGaps ==
    \A m \in MeetingCodes :
        LET calls == {p \in Submitters : qpc[p] # "idle" /\ qmeeting[p] = m}
            nums == {q.question_number : q \in {r \in questions : r.meeting_id = m}}
        IN (\A p \in calls : qpc[p] = "done") => nums = 1..Cardinality(calls)

\* both meetings have received concurrent submissions that all succeeded,
\* one of them after a retry
C5_Witness ==
    /\ \A p \in Submitters : qpc[p] = "done"
    /\ \E p \in Submitters : attempt[p] > 0
    /\ \A m \in MeetingCodes : \E p \in Submitters : qmeeting[p] = m

\* C6: in every reachable state there is at most one vote row per
\* (question_id, student_id), concurrent toggles of one voter included.
C6_OneVotePerVoter ==
    \A v1 \in votes, v2 \in votes :
        (v1.question_id = v2.question_id /\ v1.student_id = v2.student_id)
            => v1 = v2

\* one voter has toggled the same question twice concurrently: both calls
\* found no vote, one inserted it and the other one hit the constraint
C6_Witness ==
    \E c1 \in VoteCalls, c2 \in VoteCalls :
        /\ vpc[c1] = "done" /\ vaction[c1] = "added"
        /\ vpc[c2] = "error"
        /\ vquestion[c1] = vquestion[c2] /\ vstudent[c1] = vstudent[c2]

\* C7 (as stated): every toggleVote call on an existing question completes
\* with action added or removed; none is rejected as a duplicate vote.
C7_NeverRejected ==
    \A c \in VoteCalls :
        /\ vpc[c] # "error"
        /\ vpc[c] = "done" => vaction[c] \in {"added", "removed"}

\* C8 (as stated): from any reachable state with no toggle in flight, two
\* toggles in sequence by one voter restore the upvote count, and one or
\* three of them change it by exactly 1 without going below 0.
C8_ToggleTwiceRestores ==
    (\A c \in VoteCalls : vpc[c] \in {"idle", "done", "error"})
        => \A q \in questions, s \in Students :
              LET t1 == ToggleAlone(Store, q.id, s)
                  t2 == ToggleAlone(t1, q.id, s)
                  t3 == ToggleAlone(t2, q.id, s)
                  n0 == q.upvotes
                  n1 == LoadedUpvotes(t1.qs, q.id)
                  n2 == LoadedUpvotes(t2.qs, q.id)
                  n3 == LoadedUpvotes(t3.qs, q.id)
              IN /\ n2 = n0
                 /\ n1 - n0 \in {1, -1} /\ n1 >= 0
                 /\ n3 - n0 \in {1, -1} /\ n3 >= 0

\* C9 (as stated): every committed question appears in exactly one
\* new_question broadcast, no other new_question broadcast is made, and when
\* the broadcast has returned every connection that has been registered under
\* the meeting code and open since it started has received the event once.
C9_NewQuestionBroadcastOnce ==
    /\ \A i \in DOMAIN committed_log :
          LET row == committed_log[i]
              ev == [msg |-> NewQuestionMsg(row.id, row.question_number),
                     code |-> row.meeting_id]
          IN CountIn(broadcast_log, ev) = 1
    /\ \A i \in DOMAIN broadcast_log :
          broadcast_log[i].msg.type = "new_question"
              => \E j \in DOMAIN committed_log :
                    /\ committed_log[j].id = broadcast_log[i].msg.question_id
                    /\ committed_log[j].meeting_id = broadcast_log[i].code
    /\ \A t \in SubmitTasks :
          sweep[t].state = "done"
              => \A w \in sweep[t].targets : CountIn(inbox[w], sweep[t].msg) = 1

\* C10 (as stated): after every committed vote toggle an upvote event with
\* the question id and its new count is broadcast to the meeting code of the
\* question's meeting.
C10_UpvoteBroadcast ==
    \A c \in VoteCalls :
        vpc[c] = "done"
            => sweep[<<"v", c>>].state \in {"scheduled", "running", "done"}
               /\ sweep[<<"v", c>>].msg = UpvoteMsg(vquestion[c], vupvotes[c])
               /\ sweep[<<"v", c>>].code = MeetingOfQuestion(vquestion[c])

\* C11: a connection registered only under meeting code A never receives an
\* event that was passed to broadcast for another meeting code B.
C11_Isolation ==
    \A w \in Connections : \A i \in DOMAIN inbox[w] :
        inbox[w][i].type = "new_question"
            => \E j \in DOMAIN broadcast_log :
                  /\ broadcast_log[j].msg = inbox[w][i]
                  /\ broadcast_log[j].code = ws_code[w]

\* connections are registered under both codes, a broadcast for each code has
\* been made, and one of the connections has received its meeting's event
C11_Witness ==
    /\ \E w1 \in Connections, w2 \in Connections :
          /\ ws_state[w1] = "open" /\ ws_state[w2] = "open"
          /\ ws_code[w1] = "A" /\ ws_code[w2] = "B"
          /\ inbox[w1] # <<>>
    /\ \A m \in MeetingCodes :
          \E j \in DOMAIN broadcast_log : broadcast_log[j].code = m

\* C12 (as stated): when a connection registered under a meeting code fails
\* on send, the broadcast still attempts delivery to each other connection
\* of that code, returns normally, and has then removed the failing
\* connection from the registry and from both bookkeeping maps.
C12_Resilience ==
    \A t \in SubmitTasks :
        (sweep[t].state = "done" /\ sweep[t].disconnected # <<>>)
            => /\ \A w \in sweep[t].targets :
                     CountIn(inbox[w], sweep[t].msg) >= 1
               /\ \A w \in Range(sweep[t].disconnected) :
                     /\ \A c \in DOMAIN active_connections :
                           w \notin Range(active_connections[c])
                     /\ w \notin DOMAIN message_counts
                     /\ w \notin DOMAIN connection_times

\* C13: a connection attempt for a session code that is no meeting's, or
\* whose meeting is not active, is refused with close code 4004, respectively
\* 4003; a refused connection is in no part of the connection registry and
\* all it ever receives is the one error event.
C13_Refused ==
    \A w \in Connections :
        ws_state[w] = "rejected"
            => /\ \A c \in DOMAIN active_connections :
                      w \notin Range(active_connections[c])
               /\ w \notin DOMAIN message_counts
               /\ w \notin DOMAIN connection_times
               /\ inbox[w] = <<ErrorMsg>>
               /\ ws_close[w] \in {4004, 4003}
               /\ ws_close[w] = 4004 <=> ws_code[w] \notin DOMAIN is_active

C13_Attempt ==
    \A w \in Connections :
        (ws_state[w] = "new" /\ ws_state'[w] # "new")
            => IF ws_code'[w] \in DOMAIN is_active /\ is_active[ws_code'[w]]
               THEN ws_state'[w] = "open"
               ELSE /\ ws_state'[w] = "rejected"
                    /\ ws_close'[w] =
                          IF ws_code'[w] \in DOMAIN is_active THEN 4003 ELSE 4004

C13_RejectedNeverRegistered == []C13_Refused /\ [][C13_Attempt]_vars

\* a client was refused for an ended meeting while another client, connected
\* to that meeting before it ended, has received a broadcast
C13_Witness ==
    \E w1, w2 \in Connections :
        /\ ws_state[w1] = "rejected" /\ ws_close[w1] = 4003
        /\ ws_state[w2] = "open" /\ ws_code[w2] = ws_code[w1]
        /\ \E i \in DOMAIN inbox[w2] : inbox[w2][i].type = "new_question"
        /\ \E j \in DOMAIN broadcast_log : broadcast_log[j].code = ws_code[w1]

\* the messages of connection w that check_rate_limit accepted among the
\* first n it handled, and that lie in the window that trails time t
AcceptedInWindow(w, n, t) ==
    {j \in 1..n : /\ recv_log[w][j].ok
                  /\ recv_log[w][j].at <= t
                  /\ t - recv_log[w][j].at < RateWindow}

\* C14: check_rate_limit accepts a message exactly when fewer than
\* max_messages of the messages accepted before it lie in the trailing window,
\* so no trailing window holds more than max_messages accepted messages;
\* message_counts holds the accepted messages only; a message that comes when
\* the window of every earlier one has elapsed is accepted; and of 15
\* messages in one window at least 5 are rejected.
C14_RateLimit ==
    \A w \in Connections :
        (ws_state[w] = "open" /\ ws_code[w] # "system") =>
            LET n == Len(recv_log[w])
            IN /\ \A i \in 1..n :
                      recv_log[w][i].ok <=>
                          Cardinality(AcceptedInWindow(w, i - 1, recv_log[w][i].at))
                              < max_messages
               /\ \A t \in 0..now :
                      Cardinality(AcceptedInWindow(w, n, t)) <= max_messages
               /\ n > 0 =>
                      Len(message_counts[w]) =
                          Cardinality(AcceptedInWindow(w, n, recv_log[w][n].at))
               /\ \A i \in 1..n :
                      (\A j \in 1..(i - 1) :
                           recv_log[w][i].at - recv_log[w][j].at >= RateWindow)
                          => recv_log[w][i].ok
               /\ \A t \in 0..now :
                      LET inw == {j \in 1..n : /\ recv_log[w][j].at <= t
                                               /\ t - recv_log[w][j].at < RateWindow}
                      IN Cardinality(inw) >= 15 =>
                            Cardinality({j \in inw : ~recv_log[w][j].ok}) >= 5

\* 15 messages came within one window, 10 were accepted and 5 rejected, and
\* a 16th that came when that window had elapsed was accepted again
C14_Witness ==
    \E w \in Connections :
        /\ ws_state[w] = "open"
        /\ Len(recv_log[w]) = 16
        /\ recv_log[w][15].at - recv_log[w][1].at < RateWindow
        /\ Cardinality({j \in 1..15 : recv_log[w][j].ok}) = 10
        /\ Cardinality({j \in 1..15 : ~recv_log[w][j].ok}) = 5
        /\ recv_log[w][16].at - recv_log[w][15].at >= RateWindow
        /\ recv_log[w][16].ok
        /\ message_counts[w] = <<recv_log[w][16].at>>

\* C15: on every connection, a meeting's or the "system" channel's, a ping
\* is answered with pong when fewer than 10 messages were processed normally
\* in the trailing 1-second window, and with the rate-limit error otherwise;
\* the server does not close the connection.
C15_EveryChannelLimited ==
    \A w \in Connections :
        /\ \A i \in 1..Len(recv_log[w]) :
               LET before == {j \in 1..(i - 1) :
                                /\ recv_log[w][j].reply = "pong"
                                /\ recv_log[w][i].at - recv_log[w][j].at < RateWindow}
               IN recv_log[w][i].reply =
                      IF Cardinality(before) < max_messages THEN "pong" ELSE "error"
        /\ recv_log[w] # <<>> => ws_close[w] = 0

\* C16: when the receive loop handles a message of a connection that had no
\* inbound message for more than 3600 seconds, the server closes the
\* connection with code 1000 and the connection leaves the registry.
C16_IdleClosed ==
    \A w \in Connections : \A i \in 1..Len(recv_log[w]) :
        recv_log[w][i].idle > IdleTimeout
            => /\ recv_log[w][i].reply = "close"
               /\ ws_close[w] = 1000
               /\ ws_state[w] \in {"timeout", "closed"}
               /\ ws_state[w] = "closed" => w \notin DOMAIN connection_times

\* C17: check_connection_timeout(connection, timeout) is true exactly when
\* the connection has an activity record and now - lastActivity > timeout
\* (true 3601 s after the last activity with timeout 3600 s, false at
\* 3600 s), false for a connection without an activity record, and it leaves
\* the registry as it was.
C17_Result ==
    \A i \in 1..Len(timeout_check) :
        LET c == timeout_check[i]
        IN /\ c.result <=> (c.known /\ c.at - c.last > c.timeout)
           /\ ~c.known => ~c.result
           /\ (c.known /\ c.timeout = timeout_seconds * TicksPerSecond) =>
                 /\ c.at - c.last = 3601 * TicksPerSecond => c.result
                 /\ c.at - c.last = 3600 * TicksPerSecond => ~c.result

C17_NoStateChange == timeout_check' # timeout_check => UNCHANGED regVars

C17_TimeoutStrict == []C17_Result /\ [][C17_NoStateChange]_vars

\* the three cases in one run: 3601 s idle, 3600 s idle, and no record
C17_Witness ==
    /\ \E i \in 1..Len(timeout_check) :
           /\ timeout_check[i].known
           /\ timeout_check[i].timeout = timeout_seconds * TicksPerSecond
           /\ timeout_check[i].at - timeout_check[i].last = 3601 * TicksPerSecond
           /\ timeout_check[i].result
    /\ \E i \in 1..Len(timeout_check) :
           /\ timeout_check[i].known
           /\ timeout_check[i].timeout = timeout_seconds * TicksPerSecond
           /\ timeout_check[i].at - timeout_check[i].last = 3600 * TicksPerSecond
           /\ ~timeout_check[i].result
    /\ \E i \in 1..Len(timeout_check) :
           /\ ~timeout_check[i].known
           /\ ~timeout_check[i].result

\* C18: a create_question call makes at most 3 insert attempts; it starts
\* another attempt only after a commit that met the unique-number conflict;
\* it ends with the concurrent-submissions error only at the conflict of its
\* third attempt, the two before having conflicted too; and a call that
\* failed has committed no question row.
C18_Bounded ==
    /\ \A p \in Submitters :
           /\ attempt[p] < 3
           /\ qpc[p] = "failed" => attempt[p] = 2
           /\ qpc[p] \in {"failed", "error"} => db_question[p] = 0
    /\ Len(committed_log) = Cardinality({p \in Submitters : db_question[p] # 0})

C18_Step ==
    \A p \in Submitters :
        /\ (attempt'[p] # attempt[p] \/ (qpc'[p] = "retry" /\ qpc[p] # "retry")
               \/ (qpc'[p] = "failed" /\ qpc[p] # "failed"))
              => /\ qpc[p] = "commit"
                 /\ \E q \in questions :
                        /\ q.meeting_id = qmeeting[p]
                        /\ q.question_number = next_number[p]
                 /\ questions' = questions
        /\ (qpc'[p] = "retry" /\ qpc[p] # "retry") => attempt'[p] = attempt[p] + 1
        /\ (qpc'[p] = "commit" /\ qpc[p] = "retry") => questions' = questions

C19_Increasing ==
    \A j \in DOMAIN committed_log :
        LET earlier == {committed_log[i].question_number :
                          i \in {k \in 1..(j - 1) :
                                   committed_log[k].meeting_id =
                                       committed_log[j].meeting_id}}
        IN \A n \in earlier : committed_log[j].question_number > n

\* C20: the step by which a toggle_vote call fails (no such question, or a
\* failed commit) leaves the vote rows and every question's upvote count as
\* they were, and so does every step of a call other than its successful
\* commit; so a call that fails has changed neither.
C20_Step ==
    /\ \A c \in VoteCalls :
           (vpc'[c] \in {"notfound", "error", "failed"} /\ vpc'[c] # vpc[c])
               => questions' = questions /\ votes' = votes
    /\ (questions' # questions \/ votes' # votes)
           => \E c \in VoteCalls :
                 /\ vpc[c] = "commit" /\ vpc'[c] = "done"
                 /\ \A d \in VoteCalls \ {c} : vpc'[d] = vpc[d]

C20_FailureLeavesStore == [][C20_Step]_vars

\* one call added a vote, one met a failing commit with a vote pending, and
\* one asked for a question that does not exist
C20_Witness ==
    /\ \E c \in VoteCalls : vpc[c] = "done" /\ vaction[c] = "added"
    /\ \E c \in VoteCalls : vpc[c] = "failed" /\ existing_vote[c] = 0
    /\ \E c \in VoteCalls : vpc[c] = "notfound"
    /\ Cardinality(votes) = 1

\* C21 (as stated): when a broadcast has ended, every connection that was
\* registered under its session code and open from its start to its end has
\* received its event, whatever registered or unregistered meanwhile.
C21_DeliveredToAll ==
    \A t \in SubmitTasks :
        sweep[t].state = "done"
            => \A w \in sweep[t].targets : CountIn(inbox[w], sweep[t].msg) >= 1

\* C22 (as stated): broadcast_to_all never raises to its caller, and when it
\* has ended every connection that was registered and open from its start to
\* its end has received its event.
C22_AllNeverRaises ==
    /\ all_sweep.state # "raised"
    /\ all_sweep.state = "done"
          => \A w \in all_sweep.targets : CountIn(inbox[w], all_sweep.msg) >= 1

\* C23: no session code in active_connections maps to an empty list.
C23_NoEmptyList ==
    \A c \in DOMAIN active_connections : active_connections[c] # <<>>

\* a broadcast_to_all has unregistered a connection that failed, a key has
\* been deleted with its last connection, and another code is still there
C23_Witness ==
    /\ all_sweep.state = "done" /\ all_sweep.disconnected # <<>>
    /\ \E i \in DOMAIN key_order : key_order[i] = ""
    /\ DOMAIN active_connections # {}
    /\ \E t \in SubmitTasks : sweep[t].state = "done" /\ sweep[t].targets # {}

\* C24 (as stated): connect for a connection that is registered under the
\* session code already does not raise, leaves the connection once in the
\* code's list and resets its message_counts and connection_times entries;
\* the connection receives each broadcast once.
C24_RegisterAgain ==
    /\ \A i \in DOMAIN call_log :
           call_log[i].op = "connect"
               => LET c == call_log[i]
                  IN /\ ~c.raised
                     /\ CountIn(c.after.ac[c.code], c.w) = 1
                     /\ c.after.mc[c.w] = <<>>
                     /\ c.after.ct[c.w] = c.at
    /\ \A w \in Connections :
           CountIn(inbox[w], sweep[<<"q", 1>>].msg) <= 1

\* the connection is in no list of the registry and in neither map
Unregistered(reg, w) ==
    /\ \A c \in DOMAIN reg.ac : w \notin Range(reg.ac[c])
    /\ w \notin DOMAIN reg.mc
    /\ w \notin DOMAIN reg.ct

\* C25: disconnect(connection, code) called again on the registry it left
\* changes nothing, and called for a connection that is not registered it
\* leaves the registry and both maps as they were.
C25_UnregisterIdempotent ==
    \A i \in DOMAIN call_log :
        call_log[i].op = "disconnect"
            => LET c == call_log[i]
               IN /\ ~c.raised
                  /\ DisconnectReg(c.after, c.w, c.code) = c.after
                  /\ Unregistered(c.before, c.w) => c.after = c.before
                  /\ i > 1 /\ call_log[i - 1].op = "disconnect"
                        /\ call_log[i - 1].w = c.w /\ call_log[i - 1].code = c.code
                        /\ call_log[i - 1].after = c.before
                     => c.after = c.before

\* disconnect was called twice in a row for a connection that shared its
\* meeting with another one: the first call removed it, the second found
\* the registry as the first had left it
C25_Witness ==
    /\ Len(call_log) = 2
    /\ call_log[1].op = "disconnect" /\ call_log[2].op = "disconnect"
    /\ call_log[1].w = call_log[2].w /\ call_log[1].code = call_log[2].code
    /\ call_log[1].before # call_log[1].after
    /\ call_log[2].before = call_log[1].after
    /\ call_log[1].code \in DOMAIN call_log[1].after.ac

\* the connection has been unregistered, by its handler's finally clause or
\* by the cleanup of a broadcast that has ended
WasUnregistered(w) ==
    \/ ws_state[w] = "closed"
    \/ \E t \in SubmitTasks :
          sweep[t].state = "done" /\ w \in Range(sweep[t].disconnected)

\* C26 (as stated): a connection that has been unregistered is from then on
\* in no list of the registry, not in message_counts and not in
\* connection_times, and it is sent no further event.
C26_Absent ==
    \A w \in Connections : WasUnregistered(w) => Unregistered(Registry, w)

C26_NoFurtherEvent ==
    \A w \in Connections : WasUnregistered(w) => inbox'[w] = inbox[w]

C26_ClosedForGood == []C26_Absent /\ [][C26_NoFurtherEvent]_vars

\* C27 (as stated): on every open connection, a meeting's or the "system"
\* channel's, connection_times holds the time of the last inbound message
\* the handler handled, whether that message was answered or rate-limited.
C27_ActivityReset ==
    \A w \in Connections :
        (ws_state[w] = "open" /\ recv_log[w] # <<>>)
            => /\ w \in DOMAIN connection_times
               /\ connection_times[w] = recv_log[w][Len(recv_log[w])].at

\* C28 (as stated): broadcast and disconnect called with a session code
\* that is no key of the registry do not raise and leave the registry and
\* both maps as they were.
C28_Unchanged ==
    \A i \in DOMAIN call_log :
        call_log[i].code \notin DOMAIN call_log[i].before.ac
            => ~call_log[i].raised /\ call_log[i].after = call_log[i].before

\* C28 (amended): broadcast and disconnect called with a session code that
\* is no key of the registry do not raise, create no entry for the code and
\* leave every list as it was; broadcast leaves both maps as they were,
\* disconnect removes the connection's entries from both maps and nothing
\* else, so it changes nothing for a connection that has no entries.
C28_NoEntryCreated ==
    \A i \in DOMAIN call_log :
        LET c == call_log[i]
        IN c.code \notin DOMAIN c.before.ac
              => /\ ~c.raised
                 /\ c.after.ac = c.before.ac
                 /\ c.op = "broadcast" => c.after = c.before
                 /\ c.op = "disconnect" =>
                       /\ c.after.mc = Restrict(c.before.mc,
                                                DOMAIN c.before.mc \ {c.w})
                       /\ c.after.ct = Restrict(c.before.ct,
                                                DOMAIN c.before.ct \ {c.w})
                       /\ (c.w \notin DOMAIN c.before.mc
                              /\ c.w \notin DOMAIN c.before.ct)
                             => c.after = c.before

\* with a connection registered under another code: a broadcast for a code
\* without connections, and a disconnect with such a code that took the
\* connection's entries out of the maps
C28_Witness ==
    /\ Len(call_log) = 2
    /\ call_log[1].op = "broadcast"
    /\ call_log[1].before.ac # EmptyMap
    /\ call_log[2].op = "disconnect"
    /\ call_log[2].code \notin DOMAIN call_log[2].before.ac
    /\ call_log[2].after # call_log[2].before
    /\ call_log[2].after.ac = call_log[2].before.ac

\* C29 (as stated): a connection whose handler has ended, on a meeting's
\* channel or on the "system" channel and for whatever reason, is in no
\* list of the registry and in neither map.
C29_HandlerGone ==
    \A w \in Connections :
        ws_state[w] = "closed"
            => /\ w \notin Registered(active_connections)
               /\ w \notin DOMAIN message_counts \cup DOMAIN connection_times

\* the place of the first occurrence of e in the sequence s, 0 for none
FirstIndex(s, e) ==
    IF \E i \in DOMAIN s : s[i] = e
    THEN Min({i \in DOMAIN s : s[i] = e}) ELSE 0

\* C30 (as stated): when two new_question broadcasts were started for one
\* meeting, a connection that has received both events has received the
\* event of the broadcast that started first before the other one.
C30_SameOrder ==
    \A i \in DOMAIN broadcast_log, j \in DOMAIN broadcast_log :
        (i < j /\ broadcast_log[i].code = broadcast_log[j].code)
            => \A w \in Connections :
                  LET x == FirstIndex(inbox[w], broadcast_log[i].msg)
                      y == FirstIndex(inbox[w], broadcast_log[j].msg)
                  IN (x # 0 /\ y # 0) => x < y

====
